---------------------------- MODULE Spec2Model ----------------------------
(***************************************************************************)
(* Model of tools/pypco_generator.py: the PyPCO code generator.  It        *)
(* fetches the documentation graph of an app over HTTP, reduces it to a    *)
(* list of models and a list of endpoints, and writes one model file and   *)
(* one endpoint file per app.                                              *)
(*                                                                         *)
(* Python strings on which the program works character by character (URLs, *)
(* paths, app names, edge names) are sequences of one-character strings.   *)
(* Text that is only copied or compared as a whole (ids, descriptions,     *)
(* vertex names) is a TLA+ string.                                         *)
(***************************************************************************)
EXTENDS Integers, Sequences, FiniteSets, TLC

VARIABLES
    arguments,          \* docopt's arguments (line 250)
    pc,                 \* position of the control flow
    app_ndx,            \* position of the loop over PCO_ALL_APPS (line 276)
    doc_url,            \* generate's parameter doc_url
    app,                \* generate's local app (line 112)
    status_code,        \* response.status_code of the latest response
    doc_json,           \* the parsed root document (line 126)
    vertex_ndx,         \* position of the loop over vertices (line 140)
    models,             \* line 135
    description_dict,   \* line 138
    edge_ndx,           \* position of the loop over outbound_edges (line 190)
    endpoints,          \* line 188
    files,              \* the file system: path -> content
    error,              \* the exception that ended the process, or "none"
    http_log,           \* history: the GETs issued by the current generate call
    write_log,          \* history: the files written by the process, in order
    model_src,          \* history: for each entry of models, the position of its stub
    endpoint_src,       \* history: for each entry of endpoints, the position of its edge
    unit                \* the call of a pure function under test

vars == <<arguments, pc, app_ndx, doc_url, app, status_code, doc_json,
          vertex_ndx, models, description_dict, edge_ndx, endpoints, files,
          error, http_log, write_log, model_src, endpoint_src, unit>>

-----------------------------------------------------------------------------
(* Bounds *)

\* longest identifier handed to _underscore_to_camelcase on its own
MaxNameLen == 4
\* longest vertex path handed to the endpoint derivation on its own
MaxPathLen == 7
\* most vertex stubs plus outbound edges in one root document
MaxGraph == 3

-----------------------------------------------------------------------------
(* Python's str and list primitives *)

Range(s) == {s[i] : i \in 1..Len(s)}

SeqsUpTo(S, n) == UNION {[1..k -> S] : k \in 0..n}

\* list.index(x): the first position of x, 1-based; 0 stands for ValueError
Index(list, x) ==
    IF x \in Range(list)
    THEN CHOOSE i \in 1..Len(list) : list[i] = x /\ \A j \in 1..(i-1) : list[j] # x
    ELSE 0

\* del list[ndx]
Delete(list, ndx) == [i \in 1..(Len(list) - 1) |-> IF i < ndx THEN list[i] ELSE list[i+1]]

LowerChars == <<"a","b","c","d","e","f","g","h","i","j","k","l","m",
                "n","o","p","q","r","s","t","u","v","w","x","y","z">>
UpperChars == <<"A","B","C","D","E","F","G","H","I","J","K","L","M",
                "N","O","P","Q","R","S","T","U","V","W","X","Y","Z">>

\* str.upper() of one character
Upper(c) == IF c \in Range(LowerChars) THEN UpperChars[Index(LowerChars, c)] ELSE c

\* str.split(sep) for a one-character separator
RECURSIVE SplitFrom(_, _, _, _)
SplitFrom(str, sep, i, cur) ==
    IF i > Len(str) THEN <<cur>>
    ELSE IF str[i] = sep THEN <<cur>> \o SplitFrom(str, sep, i + 1, <<>>)
    ELSE SplitFrom(str, sep, i + 1, Append(cur, str[i]))

Split(str, sep) == SplitFrom(str, sep, 1, <<>>)

\* str.replace(old, new) for one-character old and new
Replace(str, old, new) == [i \in 1..Len(str) |-> IF str[i] = old THEN new ELSE str[i]]

V2 == <<"v", "2">>

-----------------------------------------------------------------------------
(* _underscore_to_camelcase, lines 224-247 *)

Returned(val) == [err |-> "none", val |-> val]
Raised(err) == [err |-> err, val |-> <<>>]

\* The while loop of lines 240-243.  string.index raises ValueError when no
\* repl_char is left, which line 244 catches; string[under_ndx] after the del
\* raises IndexError when the deleted character was the last one, which
\* nothing catches.
RECURSIVE CamelcaseLoop(_, _)
CamelcaseLoop(string, repl_char) ==
    LET under_ndx == Index(string, repl_char)
        deleted == Delete(string, under_ndx)
    IN  IF under_ndx = 0 THEN Returned(string)
        ELSE IF under_ndx > Len(deleted) THEN Raised("IndexError")
        ELSE CamelcaseLoop([deleted EXCEPT ![under_ndx] = Upper(@)], repl_char)

\* string[0] = string[0].upper() raises IndexError on the empty string
UnderscoreToCamelcase(underscore_str, repl_char) ==
    IF underscore_str = <<>> THEN Raised("IndexError")
    ELSE CamelcaseLoop([underscore_str EXCEPT ![1] = Upper(@)], repl_char)

-----------------------------------------------------------------------------
(* The endpoint of a model, lines 151 and 156 *)

\* The expression without its path[-1] == 'v2' case: the index after the
\* last segment raises IndexError.
EndpointOfPathUnguarded(vertex_path) ==
    LET path == Split(vertex_path, "/")
    IN  IF Index(path, V2) = 0 THEN Raised("ValueError")
        ELSE IF Index(path, V2) = Len(path) THEN Raised("IndexError")
        ELSE Returned(path[Index(path, V2) + 1])

\* '' if path[-1] == 'v2' else path[path.index('v2') + 1]
EndpointOfPath(vertex_path) ==
    LET path == Split(vertex_path, "/")
    IN  IF path[Len(path)] = V2 THEN Returned(<<>>)
        ELSE IF Index(path, V2) = 0 THEN Raised("ValueError")
        ELSE Returned(path[Index(path, V2) + 1])

-----------------------------------------------------------------------------
(* Module-level constants, lines 33-42 *)

UrlHead == <<"h","t","t","p","s",":","/","/","a","p","i",".","p","l","a","n","n","i","n","g","c","e","n","t","e","r","o","n","l","i","n","e",".","c","o","m","/">>
UrlTail == <<"/","v","2","/","d","o","c","u","m","e","n","t","a","t","i","o","n","/">>

\* PCO_DOC_URL_PATTERN.format(app=..., version=...)
PCO_DOC_URL_PATTERN(app_name, version) == UrlHead \o app_name \o UrlTail \o version

PCO_ALL_APPS == <<
    <<"c","h","e","c","k","-","i","n","s">>,
    <<"g","i","v","i","n","g">>,
    <<"p","e","o","p","l","e">>,
    <<"s","e","r","v","i","c","e","s">>,
    <<"r","e","s","o","u","r","c","e","s">>,
    <<"w","e","b","h","o","o","k","s">> >>

All == <<"a","l","l">>

-----------------------------------------------------------------------------
(* The inputs: command lines and HTTP responses *)

Version == <<"2","0","1","8","-","0","8","-","0","1">>

\* docopt leaves an option that was not given at None, which is falsy like
\* the empty string: <<>> stands for both.
None == <<>>

Arguments(url, app_name) ==
    [doc_url |-> url, app |-> app_name, version |-> IF app_name = None THEN None ELSE Version,
     endpoint_path |-> "endpoints", model_path |-> "models"]

\* One generate call: by --doc-url (one well-formed, one without a v2
\* segment) or by --app.
SingleArguments ==
    { Arguments(PCO_DOC_URL_PATTERN(PCO_ALL_APPS[2], Version), None),
      Arguments(UrlHead \o PCO_ALL_APPS[2], None),
      Arguments(None, PCO_ALL_APPS[1]) }

AllArguments == { Arguments(None, All) }

StatusCodes == {200, 404}

Organization == "organization"

VertexStubs ==
    { [id |-> Organization, name |-> "Organization"],
      [id |-> "a", name |-> "People"],
      [id |-> "b", name |-> "Email"] }

ListPeople == <<"l","i","s","t","_","p","e","o","p","l","e">>
EmailsUnderscore == <<"e","m","a","i","l","s","_">>

\* edges to each head, and one whose name ends with the delimiter
OutboundEdges ==
    { [name |-> ListPeople, head |-> h] : h \in {Organization, "a", "b"} }
    \cup { [name |-> EmailsUnderscore, head |-> "b"] }

RootDoc(vertices, outbound_edges) == [vertices |-> vertices, outbound_edges |-> outbound_edges]

\* A response body: valid says whether json.loads accepts it.
Json(data) == [valid |-> TRUE, data |-> data]
NotJsonRoot == [valid |-> FALSE, data |-> RootDoc(<<>>, <<>>)]

RootDocs ==
    { RootDoc(v, e) : <<v, e>> \in
        { p \in SeqsUpTo(VertexStubs, MaxGraph) \X SeqsUpTo(OutboundEdges, MaxGraph) :
            Len(p[1]) + Len(p[2]) <= MaxGraph } }

\* The documents the six runs of --app=all draw from: a consistent graph
\* and one whose only edge points at a vertex that is not listed.
AllModeRootDocs ==
    { RootDoc(<<[id |-> Organization, name |-> "Organization"], [id |-> "a", name |-> "People"]>>,
              <<[name |-> ListPeople, head |-> Organization],
                [name |-> ListPeople, head |-> "a"]>>),
      RootDoc(<<>>, <<[name |-> ListPeople, head |-> "b"]>>) }

RootBodies(args) ==
    {NotJsonRoot} \cup {Json(d) : d \in IF args.app = All THEN AllModeRootDocs ELSE RootDocs}

VertexDoc(id, path, description) == [id |-> id, path |-> path, description |-> description]

PathRoot == <<"/","v","2">>
PathPeople == <<"/","v","2","/","p","e","o","p","l","e">>
PathNoV2 == <<"/","p","e","o","p","l","e">>

NotJsonVertex == [valid |-> FALSE, data |-> VertexDoc("", <<>>, "")]

\* two documents of id a, one of id b, one that carries the id of the
\* organization, and one whose path has no v2 segment
VertexDocs ==
    { VertexDoc("a", PathPeople, "A person"),
      VertexDoc("a", PathRoot, "The people"),
      VertexDoc("b", PathPeople, "An email"),
      VertexDoc(Organization, PathPeople, "An organization"),
      VertexDoc("a", PathNoV2, "A person") }

AllModeVertexDocs ==
    { VertexDoc("a", PathPeople, "A person"), VertexDoc("a", PathRoot, "The people") }

VertexBodies(args) ==
    {NotJsonVertex} \cup {Json(d) : d \in IF args.app = All THEN AllModeVertexDocs ELSE VertexDocs}

-----------------------------------------------------------------------------
(* The steps of generate, lines 91-222, as operators *)

\* lines 111-112: url_split[url_split.index('v2') - 1]; index raises
\* ValueError without a v2 segment, and index 0 - 1 is Python's last element
AppOfUrl(url) ==
    LET url_split == Split(url, "/")
        ndx == Index(url_split, V2)
    IN  IF ndx = 0 THEN Raised("ValueError")
        ELSE Returned(url_split[IF ndx = 1 THEN Len(url_split) ELSE ndx - 1])

\* json.loads behind a status check that raises, as raise_for_status would
JsonLoadsChecked(response) ==
    IF response.status_code # 200 THEN Raised("HTTPError")
    ELSE IF response.text.valid THEN Returned(response.text.data) ELSE Raised("ValueError")

\* lines 123-126 and 146-149: a status other than 200 is logged and nothing
\* else; json.loads raises a ValueError on a body that is not JSON
JsonLoads(response) ==
    IF response.text.valid THEN Returned(response.text.data) ELSE Raised("ValueError")

\* line 144: "{}/vertices/{}".format(doc_url, vertex['id'])
VertexUrl(url, id) == [url |-> url, vertices |-> <<id>>]
RootUrl(url) == [url |-> url, vertices |-> <<>>]

\* the loop over the vertices without its organization case
SkipVertexNever(vertex) == FALSE

\* lines 141-142
SkipVertex(vertex) == vertex.id = Organization

\* lines 153-159: the name comes from the stub, the rest from the vertex document
ModelOf(vertex, vertex_json) ==
    LET endpoint == EndpointOfPath(vertex_json.path)
    IN  IF endpoint.err # "none" THEN Raised(endpoint.err)
        ELSE Returned([name |-> vertex.name, endpoint |-> endpoint.val,
                       description |-> vertex_json.description])

\* models.insert(0, ...) in place of models.append
PrependModel(list, model) == <<model>> \o list

\* line 153: models.append
AppendModel(list, model) == Append(list, model)

\* the description recorded under the id of the stub
DescriptionKeyOfStub(vertex, vertex_json) == vertex.id

\* line 161: the key is the id the vertex document carries
DescriptionKey(vertex, vertex_json) == vertex_json.id

\* line 161: description_dict[key] = value
DictSet(dict, key, value) ==
    [k \in DOMAIN dict \cup {key} |-> IF k = key THEN value ELSE dict[k]]

EmptyDict == [k \in {} |-> ""]

\* description_dict.get(key, '') in place of description_dict[key]
DictGetOrDefault(dict, key) == IF key \in DOMAIN dict THEN Returned(dict[key]) ELSE Returned("")

\* line 197: description_dict[key] raises KeyError on a key that is absent
DictGet(dict, key) == IF key \in DOMAIN dict THEN Returned(dict[key]) ELSE Raised("KeyError")

\* the loop over the edges without its organization case
SkipEdgeNever(edge) == FALSE

\* lines 191-192
SkipEdge(edge) == edge.head = Organization

\* lines 194-199: the dict literal evaluates the name before the description
EndpointOf(edge, dict) ==
    LET name == UnderscoreToCamelcase(edge.name, "_")
        description == DictGet(dict, edge.head)
    IN  IF name.err # "none" THEN Raised(name.err)
        ELSE IF description.err # "none" THEN Raised(description.err)
        ELSE Returned([name |-> name.val, description |-> description.val])

\* line 194: endpoints.append
AppendEndpoint(list, endpoint) == Append(list, endpoint)

\* lines 169-176 and 208-217: the text jinja2 renders is determined by the
\* template and the variables handed to it
Render(template, app_name, items) ==
    LET camel == UnderscoreToCamelcase(app_name, "-")
    IN  IF camel.err # "none" THEN Raised(camel.err)
        ELSE Returned([template |-> template, app |-> camel.val, items |-> items])

\* the model file opened under endpoint_path
ModelFilePathInEndpoints(args, app_name) == <<args.endpoint_path, Replace(app_name, "-", "_")>>

\* line 178: "{}{}{}.py".format(model_path, os.sep, app.replace('-', '_'))
ModelFilePath(args, app_name) == <<args.model_path, Replace(app_name, "-", "_")>>

\* line 219
EndpointFilePath(args, app_name) == <<args.endpoint_path, Replace(app_name, "-", "_")>>

\* codecs.open(path, 'w', 'utf-8') and write: the file is replaced
WriteFile(fs, path, text) == [p \in DOMAIN fs \cup {path} |-> IF p = path THEN text ELSE fs[p]]

\* lines 257-281: the doc urls generate is called with, in order
DocUrls(args) ==
    IF args.doc_url # None THEN <<args.doc_url>>
    ELSE IF args.app # All THEN <<PCO_DOC_URL_PATTERN(args.app, args.version)>>
    ELSE [i \in 1..Len(PCO_ALL_APPS) |-> PCO_DOC_URL_PATTERN(PCO_ALL_APPS[i], args.version)]

-----------------------------------------------------------------------------
(* The state machine *)

Previous == [template |-> "PREVIOUS", app |-> <<>>, items |-> <<>>]

NoUnit == [fn |-> "none", arg |-> <<>>, repl_char |-> "", result |-> Raised("pending")]

\* Every app's two files exist from an earlier run of the tool.
InitialFiles ==
    [p \in {<<d, Replace(PCO_ALL_APPS[i], "-", "_")>> :
                d \in {"models", "endpoints"}, i \in 1..Len(PCO_ALL_APPS)} |-> Previous]

InitWith(args) ==
    /\ arguments \in args
    /\ pc = "main"
    /\ app_ndx = 0
    /\ doc_url = <<>>
    /\ app = <<>>
    /\ status_code = 200
    /\ doc_json = RootDoc(<<>>, <<>>)
    /\ vertex_ndx = 1
    /\ models = <<>>
    /\ description_dict = EmptyDict
    /\ edge_ndx = 1
    /\ endpoints = <<>>
    /\ files = InitialFiles
    /\ error = "none"
    /\ http_log = <<>>
    /\ write_log = <<>>
    /\ model_src = <<>>
    /\ endpoint_src = <<>>
    /\ unit = NoUnit

Init == InitWith(SingleArguments)

InitAll == InitWith(AllArguments)

\* an exception caught and logged by the caller, which goes on
FailAndGoOn(err) == pc' = "main" /\ error' = err

\* Nothing catches an exception raised in generate (lines 249-281): the
\* process ends with it.
Fail(err) == pc' = "failed" /\ error' = err

\* lines 260, 268, 277 and 106-115: main calls generate, which finds the app
GenerateBegin ==
    /\ pc = "main"
    /\ app_ndx < Len(DocUrls(arguments))
    /\ LET url == DocUrls(arguments)[app_ndx + 1]
           found == AppOfUrl(url)
       IN  /\ app_ndx' = app_ndx + 1
           /\ doc_url' = url
           /\ http_log' = <<>>
           /\ IF found.err # "none"
              THEN Fail(found.err) /\ UNCHANGED app
              ELSE pc' = "get_root" /\ app' = found.val /\ UNCHANGED error
    /\ UNCHANGED <<arguments, status_code, doc_json, vertex_ndx, models, description_dict,
                   edge_ndx, endpoints, files, write_log, model_src, endpoint_src, unit>>

\* lines 117-138
GetRoot ==
    /\ pc = "get_root"
    /\ \E response \in [status_code : StatusCodes, text : RootBodies(arguments)] :
        LET parsed == JsonLoads(response)
        IN  /\ status_code' = response.status_code
            /\ http_log' = Append(http_log, [request |-> RootUrl(doc_url), text |-> response.text])
            /\ IF parsed.err # "none"
               THEN Fail(parsed.err)
                    /\ UNCHANGED <<doc_json, vertex_ndx, models, description_dict, model_src>>
               ELSE /\ doc_json' = parsed.val
                    /\ models' = <<>>
                    /\ model_src' = <<>>
                    /\ description_dict' = EmptyDict
                    /\ vertex_ndx' = 1
                    /\ pc' = "vertices"
                    /\ UNCHANGED error
    /\ UNCHANGED <<arguments, app_ndx, doc_url, app, edge_ndx, endpoints, files, write_log,
                   endpoint_src, unit>>

\* lines 140-142: the organization stub is passed over
VertexSkip ==
    /\ pc = "vertices"
    /\ vertex_ndx <= Len(doc_json.vertices)
    /\ SkipVertex(doc_json.vertices[vertex_ndx])
    /\ vertex_ndx' = vertex_ndx + 1
    /\ UNCHANGED <<arguments, pc, app_ndx, doc_url, app, status_code, doc_json, models,
                   description_dict, edge_ndx, endpoints, files, error, http_log, write_log,
                   model_src, endpoint_src, unit>>

\* lines 144-161: one vertex is fetched and reduced to a model
VertexFetch ==
    /\ pc = "vertices"
    /\ vertex_ndx <= Len(doc_json.vertices)
    /\ ~SkipVertex(doc_json.vertices[vertex_ndx])
    /\ \E response \in [status_code : StatusCodes, text : VertexBodies(arguments)] :
        LET vertex == doc_json.vertices[vertex_ndx]
            parsed == JsonLoads(response)
            model == ModelOf(vertex, parsed.val)
        IN  /\ status_code' = response.status_code
            /\ http_log' = Append(http_log, [request |-> VertexUrl(doc_url, vertex.id),
                                             text |-> response.text])
            /\ IF parsed.err # "none"
               THEN Fail(parsed.err)
                    /\ UNCHANGED <<vertex_ndx, models, description_dict, model_src>>
               ELSE IF model.err # "none"
               THEN Fail(model.err)
                    /\ UNCHANGED <<vertex_ndx, models, description_dict, model_src>>
               ELSE /\ models' = AppendModel(models, model.val)
                    /\ model_src' = Append(model_src, vertex_ndx)
                    /\ description_dict' = DictSet(description_dict,
                                                   DescriptionKey(vertex, parsed.val),
                                                   model.val.description)
                    /\ vertex_ndx' = vertex_ndx + 1
                    /\ UNCHANGED <<pc, error>>
    /\ UNCHANGED <<arguments, app_ndx, doc_url, app, doc_json, edge_ndx, endpoints, files,
                   write_log, endpoint_src, unit>>

\* lines 163-188: the model file is rendered and written once the loop over
\* the vertices has ended
WriteModels ==
    /\ pc = "vertices"
    /\ vertex_ndx > Len(doc_json.vertices)
    /\ LET model_output == Render("MODEL_TEMPlATE", app, models)
           path == ModelFilePath(arguments, app)
       IN  IF model_output.err # "none"
           THEN Fail(model_output.err)
                /\ UNCHANGED <<files, write_log, edge_ndx, endpoints, endpoint_src>>
           ELSE /\ files' = WriteFile(files, path, model_output.val)
                /\ write_log' = Append(write_log, path)
                /\ endpoints' = <<>>
                /\ endpoint_src' = <<>>
                /\ edge_ndx' = 1
                /\ pc' = "edges"
                /\ UNCHANGED error
    /\ UNCHANGED <<arguments, app_ndx, doc_url, app, status_code, doc_json, vertex_ndx, models,
                   description_dict, http_log, model_src, unit>>

\* lines 190-192: an edge to the organization is passed over
EdgeSkip ==
    /\ pc = "edges"
    /\ edge_ndx <= Len(doc_json.outbound_edges)
    /\ SkipEdge(doc_json.outbound_edges[edge_ndx])
    /\ edge_ndx' = edge_ndx + 1
    /\ UNCHANGED <<arguments, pc, app_ndx, doc_url, app, status_code, doc_json, vertex_ndx,
                   models, description_dict, endpoints, files, error, http_log, write_log,
                   model_src, endpoint_src, unit>>

\* lines 194-199: one edge is reduced to an endpoint
EdgeAppend ==
    /\ pc = "edges"
    /\ edge_ndx <= Len(doc_json.outbound_edges)
    /\ ~SkipEdge(doc_json.outbound_edges[edge_ndx])
    /\ LET endpoint == EndpointOf(doc_json.outbound_edges[edge_ndx], description_dict)
       IN  IF endpoint.err # "none"
           THEN Fail(endpoint.err) /\ UNCHANGED <<edge_ndx, endpoints, endpoint_src>>
           ELSE /\ endpoints' = AppendEndpoint(endpoints, endpoint.val)
                /\ endpoint_src' = Append(endpoint_src, edge_ndx)
                /\ edge_ndx' = edge_ndx + 1
                /\ UNCHANGED <<pc, error>>
    /\ UNCHANGED <<arguments, app_ndx, doc_url, app, status_code, doc_json, vertex_ndx, models,
                   description_dict, files, http_log, write_log, model_src, unit>>

\* lines 201-222: the endpoint file is rendered and written, and generate returns
WriteEndpoints ==
    /\ pc = "edges"
    /\ edge_ndx > Len(doc_json.outbound_edges)
    /\ LET endpoint_output == Render("ENDPOINT_TEMPLATE", app, endpoints)
           path == EndpointFilePath(arguments, app)
       IN  IF endpoint_output.err # "none"
           THEN Fail(endpoint_output.err) /\ UNCHANGED <<files, write_log>>
           ELSE /\ files' = WriteFile(files, path, endpoint_output.val)
                /\ write_log' = Append(write_log, path)
                /\ pc' = "main"
                /\ UNCHANGED error
    /\ UNCHANGED <<arguments, app_ndx, doc_url, app, status_code, doc_json, vertex_ndx, models,
                   description_dict, edge_ndx, endpoints, http_log, model_src, endpoint_src, unit>>

\* the end of the script: no call of generate is left
Exit ==
    /\ pc = "main"
    /\ app_ndx = Len(DocUrls(arguments))
    /\ pc' = "exit"
    /\ UNCHANGED <<arguments, app_ndx, doc_url, app, status_code, doc_json, vertex_ndx, models,
                   description_dict, edge_ndx, endpoints, files, error, http_log, write_log,
                   model_src, endpoint_src, unit>>

Next ==
    \/ GenerateBegin
    \/ GetRoot
    \/ VertexSkip
    \/ VertexFetch
    \/ WriteModels
    \/ EdgeSkip
    \/ EdgeAppend
    \/ WriteEndpoints
    \/ Exit

Spec == Init /\ [][Next]_vars

SpecAll == InitAll /\ [][Next]_vars

-----------------------------------------------------------------------------
(* The pure functions on their own: one call on an input drawn from a      *)
(* bounded set of strings                                                  *)

NameChars == {"a", "B", "_", "-"}
PathChars == {"/", "v", "2", "p"}

InitUnit(calls) ==
    /\ arguments = Arguments(None, None)
    /\ pc = "unit"
    /\ app_ndx = 0
    /\ doc_url = <<>>
    /\ app = <<>>
    /\ status_code = 200
    /\ doc_json = RootDoc(<<>>, <<>>)
    /\ vertex_ndx = 1
    /\ models = <<>>
    /\ description_dict = EmptyDict
    /\ edge_ndx = 1
    /\ endpoints = <<>>
    /\ files = InitialFiles
    /\ error = "none"
    /\ http_log = <<>>
    /\ write_log = <<>>
    /\ model_src = <<>>
    /\ endpoint_src = <<>>
    /\ unit \in calls

InitName ==
    InitUnit([fn : {"_underscore_to_camelcase"}, arg : SeqsUpTo(NameChars, MaxNameLen),
              repl_char : {"_", "-"}, result : {Raised("pending")}])

InitPath ==
    InitUnit([fn : {"endpoint"}, arg : SeqsUpTo(PathChars, MaxPathLen),
              repl_char : {""}, result : {Raised("pending")}])

\* a call of _underscore_to_camelcase, lines 224-247
CallCamelcase ==
    /\ pc = "unit"
    /\ unit.fn = "_underscore_to_camelcase"
    /\ unit' = [unit EXCEPT !.result = UnderscoreToCamelcase(unit.arg, unit.repl_char)]
    /\ pc' = "returned"
    /\ UNCHANGED <<arguments, app_ndx, doc_url, app, status_code, doc_json, vertex_ndx, models,
                   description_dict, edge_ndx, endpoints, files, error, http_log, write_log,
                   model_src, endpoint_src>>

\* the endpoint expression of line 156 on a vertex path
CallEndpointOfPath ==
    /\ pc = "unit"
    /\ unit.fn = "endpoint"
    /\ unit' = [unit EXCEPT !.result = EndpointOfPath(unit.arg)]
    /\ pc' = "returned"
    /\ UNCHANGED <<arguments, app_ndx, doc_url, app, status_code, doc_json, vertex_ndx, models,
                   description_dict, edge_ndx, endpoints, files, error, http_log, write_log,
                   model_src, endpoint_src>>

SpecName == InitName /\ [][CallCamelcase]_vars

SpecPath == InitPath /\ [][CallEndpointOfPath]_vars

-----------------------------------------------------------------------------
(* Properties of the pure functions *)

\* The identifier without its delimiters, the first character and each
\* character that follows a delimiter uppercased.
RECURSIVE PascalFrom(_, _, _)
PascalFrom(str, delimiter, i) ==
    IF i > Len(str) THEN <<>>
    ELSE IF str[i] = delimiter THEN PascalFrom(str, delimiter, i + 1)
    ELSE <<IF i = 1 \/ str[i-1] = delimiter THEN Upper(str[i]) ELSE str[i]>>
         \o PascalFrom(str, delimiter, i + 1)

UnitReturned(fn) == pc = "returned" /\ unit.fn = fn

\* C6: on every non-empty identifier, with "_" or "-" as the delimiter, the
\* name formatter returns without raising, and returns the identifier with
\* the delimiters removed, its first character uppercased and each character
\* that follows a delimiter uppercased.
C6_FormatterReturnsPascalCase ==
    (UnitReturned("_underscore_to_camelcase") /\ unit.arg # <<>>)
        => unit.result = Returned(PascalFrom(unit.arg, unit.repl_char, 1))

\* What the formatter does keep of C6: it returns the pascal-case form unless
\* the identifier ends with the delimiter, and then it raises IndexError.
FormatterExceptTrailingDelimiter ==
    (UnitReturned("_underscore_to_camelcase") /\ unit.arg # <<>>)
        => IF unit.arg[Len(unit.arg)] = unit.repl_char
           THEN unit.result = Raised("IndexError")
           ELSE unit.result = Returned(PascalFrom(unit.arg, unit.repl_char, 1))

Segments == Split(unit.arg, "/")

\* the v2 segment is not the last one
HasSegmentAfterV2 == Index(Segments, V2) # 0 /\ Index(Segments, V2) < Len(Segments)

\* C3 as stated: a path that ends at the segment v2 gives the empty endpoint,
\* and a path with a segment after v2 gives the first segment after v2.
C3_EndpointIsSegmentAfterV2 ==
    UnitReturned("endpoint") =>
        /\ Segments[Len(Segments)] = V2 => unit.result = Returned(<<>>)
        /\ HasSegmentAfterV2 => unit.result = Returned(Segments[Index(Segments, V2) + 1])

\* C3 amended: a path whose last segment is v2 gives the empty endpoint, and
\* any other path in which v2 occurs gives the segment that follows the first
\* v2 segment.
C3_EndpointAmended ==
    UnitReturned("endpoint") =>
        /\ Segments[Len(Segments)] = V2 => unit.result = Returned(<<>>)
        /\ (Segments[Len(Segments)] # V2 /\ V2 \in Range(Segments)) =>
              \E k \in 1..(Len(Segments) - 1) :
                  /\ Segments[k] = V2
                  /\ \A j \in 1..(k-1) : Segments[j] # V2
                  /\ unit.result = Returned(Segments[k+1])

\* a path with two v2 segments that ends at v2 has returned the empty endpoint
C3_Witness ==
    /\ UnitReturned("endpoint")
    /\ Segments[Len(Segments)] = V2
    /\ HasSegmentAfterV2
    /\ unit.result = Returned(<<>>)

-----------------------------------------------------------------------------
(* Properties of one generate call, checked under Spec *)

Vertices == doc_json.vertices
Edges == doc_json.outbound_edges

Positions(n) == [i \in 1..n |-> i]

\* the positions, in order, of the stubs among the first n that are not the organization
StubPositions(n) ==
    LET Keep(i) == Vertices[i].id # Organization IN SelectSeq(Positions(n), Keep)

\* the positions, in order, of the edges among the first n whose head is not the organization
EdgePositions(n) ==
    LET Keep(i) == Edges[i].head # Organization IN SelectSeq(Positions(n), Keep)

\* generate has returned
Completed == pc \in {"main", "exit"} /\ app_ndx >= 1

\* the vertex document received for the k-th entry of models
FetchedFor(k) == http_log[k + 1].text.data

\* C1: no entry of models comes from the stub whose id is "organization" and
\* no entry of endpoints comes from an edge whose head is "organization".
C1_OrganizationExcluded ==
    /\ \A k \in 1..Len(models) : Vertices[model_src[k]].id # Organization
    /\ \A k \in 1..Len(endpoints) : Edges[endpoint_src[k]].head # Organization
    /\ Completed => /\ Len(models) = Len(StubPositions(Len(Vertices)))
                    /\ Len(endpoints) = Len(EdgePositions(Len(Edges)))

\* a run has completed on a graph that lists the organization as a stub and
\* as the head of an edge, next to a stub that became a model
C1_Witness ==
    /\ pc = "exit"
    /\ \E i \in 1..Len(Vertices) : Vertices[i].id = Organization
    /\ \E i \in 1..Len(Edges) : Edges[i].head = Organization
    /\ Len(models) >= 1

C4_DescriptionOfStubWithHeadId ==
    \A k \in 1..Len(endpoints) :
        \E j \in 1..Len(models) :
            /\ Vertices[model_src[j]].id = Edges[endpoint_src[k]].head
            /\ FetchedFor(j).description = endpoints[k].description

\* C4 amended: the description of every endpoint is the description of the
\* last vertex document fetched in the run whose own id is the head id of the
\* edge.
C4_DescriptionOfDocumentWithHeadId ==
    \A k \in 1..Len(endpoints) :
        \E j \in 1..Len(models) :
            /\ FetchedFor(j).id = Edges[endpoint_src[k]].head
            /\ FetchedFor(j).description = endpoints[k].description
            /\ \A later \in (j+1)..Len(models) : FetchedFor(later).id # Edges[endpoint_src[k]].head

\* an endpoint exists whose head id is the id of a fetched document and of no stub
C4_Witness ==
    /\ Len(endpoints) >= 1
    /\ \A i \in 1..Len(Vertices) : Vertices[i].id # Edges[endpoint_src[1]].head
    /\ \E j \in 1..Len(models) : FetchedFor(j).id = Edges[endpoint_src[1]].head

\* the edge the loop is at has a head, not the organization, without a description
LookupMiss ==
    /\ pc = "edges"
    /\ edge_ndx <= Len(Edges)
    /\ Edges[edge_ndx].head # Organization
    /\ Edges[edge_ndx].head \notin DOMAIN description_dict

\* KeyError and IndexError are Python's two subclasses of LookupError.
LookupErrors == {"KeyError", "IndexError"}

\* C5: at an edge whose head, not the organization, has no recorded
\* description, generate fails with a lookup error: no endpoint is appended
\* for it, and the endpoint file is not written in that run.
C5_LookupMissIsFatal ==
    /\ [][LookupMiss => /\ pc' = "failed"
                        /\ error' \in LookupErrors
                        /\ endpoints' = endpoints
                        /\ files' = files
                        /\ write_log' = write_log]_vars
    /\ []((pc = "failed" /\ error = "KeyError") =>
            /\ EndpointFilePath(arguments, app) \notin Range(write_log)
            /\ files[EndpointFilePath(arguments, app)] = Previous)

\* the second edge missed its description after the first was appended
C5_Witness ==
    /\ pc = "failed"
    /\ error = "KeyError"
    /\ edge_ndx = 2
    /\ Len(endpoints) = 1

\* C7: the status of a response decides nothing: a run fails while fetching
\* only on a body that cannot be used, models is what the bodies received
\* give, and the files written hold what models and endpoints give.
C7_StatusDecidesNothing ==
    /\ error \in {"none", "ValueError", "KeyError", "IndexError"}
    /\ (pc = "failed" /\ error = "ValueError" /\ http_log # <<>>) =>
          LET last == http_log[Len(http_log)].text
          IN  \/ ~last.valid
              \/ Len(http_log) > 1 /\ EndpointOfPath(last.data.path).err # "none"
    /\ \A k \in 1..Len(models) :
          models[k] = [name |-> Vertices[model_src[k]].name,
                       endpoint |-> EndpointOfPath(FetchedFor(k).path).val,
                       description |-> FetchedFor(k).description]
    /\ Completed =>
          /\ Len(models) = Len(http_log) - 1
          /\ files[<<arguments.model_path, Replace(app, "-", "_")>>]
                = [template |-> "MODEL_TEMPlATE", app |-> PascalFrom(app, "-", 1), items |-> models]
          /\ files[<<arguments.endpoint_path, Replace(app, "-", "_")>>]
                = [template |-> "ENDPOINT_TEMPLATE", app |-> PascalFrom(app, "-", 1),
                   items |-> endpoints]

\* a run has completed, with a model and an endpoint, whose last response had status 404
C7_Witness ==
    /\ pc = "exit"
    /\ status_code = 404
    /\ Len(models) >= 1
    /\ Len(endpoints) >= 1

Requests == [i \in 1..Len(http_log) |-> http_log[i].request]

\* the GET of the root document, then the GETs of the stubs among the first n
\* that are not the organization
ExpectedRequests(n) ==
    <<RootUrl(doc_url)>> \o
    [k \in 1..Len(StubPositions(n)) |-> VertexUrl(doc_url, Vertices[StubPositions(n)[k]].id)]

\* C9: the GETs of a run are the root document and then the stubs that are
\* not the organization, one each, in the order of the stubs; all of them are
\* issued, and their descriptions recorded, before the first edge.
C9_RequestSequence ==
    /\ pc = "get_root" => http_log = <<>>
    /\ pc = "vertices" => Requests = ExpectedRequests(vertex_ndx - 1)
    /\ (pc = "edges" \/ Completed) =>
          /\ Requests = ExpectedRequests(Len(Vertices))
          /\ DOMAIN description_dict = {FetchedFor(j).id : j \in 1..(Len(http_log) - 1)}
    /\ pc = "failed" =>
          \/ http_log = <<>>
          \/ \E n \in 0..Len(Vertices) : Requests = ExpectedRequests(n)

\* the loop over the edges is reached after three GETs on a graph of three stubs
C9_Witness ==
    /\ pc = "edges"
    /\ Len(Vertices) = 3
    /\ Len(http_log) = 3

\* C10: the model file is written before any edge is processed and the
\* endpoint file last; when an edge misses its description the model file
\* holds the new models and the endpoint file its previous content.
C10_ModelFileBeforeEdges ==
    LET model_file == <<arguments.model_path, Replace(app, "-", "_")>>
        endpoint_file == <<arguments.endpoint_path, Replace(app, "-", "_")>>
        model_output == [template |-> "MODEL_TEMPlATE", app |-> PascalFrom(app, "-", 1),
                         items |-> models]
    IN  /\ pc \in {"get_root", "vertices"} => write_log = <<>>
        /\ pc = "edges" => /\ write_log = <<model_file>>
                           /\ files[model_file] = model_output
                           /\ files[endpoint_file] = Previous
        /\ Completed => write_log = <<model_file, endpoint_file>>
        /\ (pc = "failed" /\ error = "KeyError") =>
                           /\ write_log = <<model_file>>
                           /\ files[model_file] = model_output
                           /\ files[endpoint_file] = Previous

\* an edge missed its description after a model was collected and written
C10_Witness ==
    /\ pc = "failed"
    /\ error = "KeyError"
    /\ Len(models) >= 1
    /\ files[<<arguments.model_path, Replace(app, "-", "_")>>] # Previous

-----------------------------------------------------------------------------
(* Properties of --app=all, checked under SpecAll *)

ExpectedApps == <<
    <<"c","h","e","c","k","-","i","n","s">>,
    <<"g","i","v","i","n","g">>,
    <<"p","e","o","p","l","e">>,
    <<"s","e","r","v","i","c","e","s">>,
    <<"r","e","s","o","u","r","c","e","s">>,
    <<"w","e","b","h","o","o","k","s">> >>

ExpectedFileNames == <<
    <<"c","h","e","c","k","_","i","n","s">>,
    <<"g","i","v","i","n","g">>,
    <<"p","e","o","p","l","e">>,
    <<"s","e","r","v","i","c","e","s">>,
    <<"r","e","s","o","u","r","c","e","s">>,
    <<"w","e","b","h","o","o","k","s">> >>

\* model file, then endpoint file, app after app
ExpectedWrites ==
    [i \in 1..(2 * Len(ExpectedFileNames)) |->
        <<IF i % 2 = 1 THEN "models" ELSE "endpoints", ExpectedFileNames[(i + 1) \div 2]>>]

\* C8: with --app=all generate runs once per app in the order check-ins,
\* giving, people, services, resources, webhooks, each run ending before the
\* next root fetch; a failure ends the process, and no step of a later run
\* changes a file written for an earlier app.
C8_AllAppsInSequence ==
    /\ [](/\ Len(write_log) <= Len(ExpectedWrites)
          /\ \A i \in 1..Len(write_log) : write_log[i] = ExpectedWrites[i]
          /\ app_ndx >= 1 => /\ app = ExpectedApps[app_ndx]
                             /\ doc_url = UrlHead \o ExpectedApps[app_ndx] \o UrlTail \o Version
          /\ pc = "get_root" => http_log = <<>>
          /\ pc \in {"get_root", "vertices"} => Len(write_log) = 2 * (app_ndx - 1)
          /\ pc = "edges" => Len(write_log) = 2 * app_ndx - 1
          /\ pc = "main" => Len(write_log) = 2 * app_ndx
          /\ pc = "exit" => write_log = ExpectedWrites)
    /\ [][/\ error = "none"
          /\ \A i \in 1..Len(write_log) :
                i <= 2 * (app_ndx' - 1) => files'[write_log[i]] = files[write_log[i]]]_vars

\* the third app has failed after the files of the first two were written
C8_Witness ==
    /\ pc = "failed"
    /\ app_ndx = 3
    /\ Len(write_log) >= 4

=============================================================================
